---- MODULE Spec2Model ----
(***************************************************************************)
(* Model of the kanap storefront cart: the localStorage slot "cart", the   *)
(* reconciliation done by createCartRecord, and saveToCart which reads the *)
(* slot, applies the record and writes the slot back (utils.js).           *)
(*                                                                         *)
(* Conventions                                                             *)
(*   - array positions are the JavaScript ones: 0-based, -1 = not found;   *)
(*     the element at JavaScript position i is cart[i + 1] here.           *)
(*   - the text stored under the key is a record [tag, items]: tag says    *)
(*     what the text is (no key, "", text that is not JSON, the JSON text  *)
(*     of null, of a number, of an object, of an array) and items are the  *)
(*     elements when it is the JSON text of an array of cart items.        *)
(*   - a quantity intent is [kind |-> "number", n |-> k] for the absolute  *)
(*     number k, or [kind |-> "function", n |-> d] for q => q + d.         *)
(***************************************************************************)
EXTENDS Integers, Sequences, FiniteSets

\* Bounds of the model.
MaxLen == 2
MaxQty == 2

Min(a, b) == IF a < b THEN a ELSE b
Max(a, b) == IF a > b THEN a ELSE b

\* Inputs drawn by the actions.  The colour given to saveToCart is one of
\* the product's: the product page validates it against product.colors and
\* the cart page takes it from an item saveToCart stored.
\* Prices are in thousandths of a euro: 10000 is 10, 5500 is 5.5.
Products == { [_id |-> "p1", price |-> 10000, colors |-> {"red", "blue"}],
              [_id |-> "p2", price |-> 5500,  colors |-> {"red"}] }
Quantities == [kind : {"number"}, n : -1 .. MaxQty]
                \cup [kind : {"function"}, n : {-1, 1}]
Kinds == {"insert", "update", "remove"}
\* The handlers given to saveToCart are those of the cart page: remove only.
HandlerSets == { {"remove"} }

\* JavaScript values handled by the cart code.
Null == [productId |-> "", color |-> "", quantity |-> 0]
JsArray(items) == [kind |-> "array", items |-> items]
JsOther(kind) == [kind |-> kind, items |-> <<>>]

\* Texts the storage slot can hold.
Raw(tag, items) == [tag |-> tag, items |-> items]
CorruptTags == {"missing", "empty", "invalid", "null", "number", "object"}
InitStored == { Raw(t, <<>>) : t \in CorruptTags \cup {"array"} }

\* storage is the slot; prev, call, rec, local, ret, result and events
\* describe the last call of saveToCart or getCartFromStorage; agg is a call
\* of the two total functions; pp is the product page; cp is the cart page;
\* ss is two tabs of the site sharing the slot.
VARIABLES storage, prev, call, rec, local, ret, result, events, agg, pp, cp, ss
coreVars == <<storage, prev, call, rec, local, ret, result, events>>
lastCallVars == <<prev, call, rec, local, ret, result, events>>
vars == <<storage, prev, call, rec, local, ret, result, events, agg, pp, cp, ss>>

----------------------------------------------------------------------------
\* JSON.stringify of a cart (an array of items).
JSONstringify(cart) == Raw("array", cart)

\* JSON.parse: throws on text that is not JSON (the empty text included).
JSONparse(data) ==
    IF data.tag \in {"invalid", "empty", "missing"}
    THEN [threw |-> TRUE, value |-> JsOther("undefined")]
    ELSE IF data.tag = "array"
    THEN [threw |-> FALSE, value |-> JsArray(data.items)]
    ELSE [threw |-> FALSE, value |-> JsOther(data.tag)]

\* One access to the slot or one callback, as saveToCart performs them.
Ev(ev, ok, kind) == [ev |-> ev, ok |-> ok, kind |-> kind]
GetItem == Ev("getItem", TRUE, "")
SetItem(ok) == Ev("setItem", ok, "")
Callback(kind) == Ev("callback", TRUE, kind)

\* getCartFromStorage without its try/catch: a parse failure escapes.
getCartFromStorageNoCatch(data) ==
    IF data.tag \in {"missing", "empty"}
    THEN [raised |-> FALSE, value |-> JsArray(<<>>), storage |-> data, io |-> <<GetItem>>]
    ELSE [raised |-> JSONparse(data).threw, value |-> JSONparse(data).value,
          storage |-> data, io |-> <<GetItem>>]

\* getCartFromStorage that repairs the slot when it falls back to [].
getCartFromStorageRepair(data) ==
    IF data.tag \in {"missing", "empty"} \/ JSONparse(data).threw
    THEN [raised |-> FALSE, value |-> JsArray(<<>>),
          storage |-> JSONstringify(<<>>), io |-> <<GetItem, SetItem(TRUE)>>]
    ELSE [raised |-> FALSE, value |-> JSONparse(data).value,
          storage |-> data, io |-> <<GetItem>>]

\* getCartFromStorage: no key or "" gives [], a parse failure gives [],
\* anything that parses is returned as parsed; the slot is only read.
getCartFromStorage(data) ==
    IF data.tag \in {"missing", "empty"}
    THEN [raised |-> FALSE, value |-> JsArray(<<>>), storage |-> data, io |-> <<GetItem>>]
    ELSE IF JSONparse(data).threw
    THEN [raised |-> FALSE, value |-> JsArray(<<>>), storage |-> data, io |-> <<GetItem>>]
    ELSE [raised |-> FALSE, value |-> JSONparse(data).value,
          storage |-> data, io |-> <<GetItem>>]

\* writeCartToStorage that reports success whatever setItem did.
writeCartToStorageAlwaysTrue(stored, cart, quotaOk) ==
    IF quotaOk
    THEN [ok |-> TRUE, storage |-> JSONstringify(cart), io |-> <<SetItem(TRUE)>>]
    ELSE [ok |-> TRUE, storage |-> stored, io |-> <<SetItem(FALSE)>>]

\* writeCartToStorage: setItem either replaces the whole text or throws
\* (quota) and leaves it; the exception is turned into false.
writeCartToStorage(stored, cart, quotaOk) ==
    IF quotaOk
    THEN [ok |-> TRUE, storage |-> JSONstringify(cart), io |-> <<SetItem(TRUE)>>]
    ELSE [ok |-> FALSE, storage |-> stored, io |-> <<SetItem(FALSE)>>]

createCartItem(data, color, quantity) ==
    [productId |-> data._id, color |-> color, quantity |-> quantity]

\* findIndex whose predicate reads a field the items do not have
\* (item.id instead of item.productId): nothing ever matches.
findIndexWrongField(cart, data, color) == -1

\* Array.prototype.findIndex with the predicate of createCartRecord.
findIndex(cart, data, color) ==
    LET hits == { i \in 1 .. Len(cart) :
                    cart[i].productId = data._id /\ cart[i].color = color }
    IN IF hits = {} THEN -1
       ELSE (CHOOSE i \in hits : \A j \in hits : i <= j) - 1

\* Array.prototype.splice(start, deleteCount, ...items), the array after it.
splice(cart, start, deleteCount, items) ==
    LET len == Len(cart)
        s   == IF start < 0 THEN Max(len + start, 0) ELSE Min(start, len)
        dc  == Max(0, Min(deleteCount, len - s))
    IN SubSeq(cart, 1, s) \o items \o SubSeq(cart, s + dc + 1, len)

\* quantityValue that calls the function without the item's quantity.
quantityValueIgnoreCurrent(quantity, item) ==
    IF quantity.kind = "function" THEN 0 + quantity.n ELSE quantity.n

\* typeof quantity === 'function' ? quantity((item && item.quantity) || 0) : quantity
quantityValue(quantity, item) ==
    IF quantity.kind = "function"
    THEN (IF item # Null /\ item.quantity # 0 THEN item.quantity ELSE 0) + quantity.n
    ELSE quantity.n

\* createCartRecord without the 'remove' branch (the earlier upsert).
createCartRecordNoRemove(cart, data, color, quantity) ==
    LET itemIdx == findIndex(cart, data, color)
        item    == IF itemIdx = -1 THEN Null ELSE cart[itemIdx + 1]
        qv      == quantityValue(quantity, item)
    IN IF item # Null
       THEN [type |-> "update", item |-> createCartItem(data, item.color, qv),
             index |-> itemIdx]
       ELSE [type |-> "insert", item |-> createCartItem(data, color, qv),
             index |-> itemIdx]

\* createCartRecord: [ type, item, itemIdx ].
createCartRecord(cart, data, color, quantity) ==
    LET itemIdx == findIndex(cart, data, color)
        item    == IF itemIdx = -1 THEN Null ELSE cart[itemIdx + 1]
        qv      == quantityValue(quantity, item)
    IN IF item # Null /\ qv <= 0
       THEN [type |-> "remove", item |-> item, index |-> itemIdx]
       ELSE IF item # Null
       THEN [type |-> "update", item |-> createCartItem(data, item.color, qv),
             index |-> itemIdx]
       ELSE [type |-> "insert", item |-> createCartItem(data, color, qv),
             index |-> itemIdx]

\* The switch with 'remove' written as cart.splice(index): without a delete
\* count splice deletes everything from index to the end.
applyRecordSpliceToEnd(cart, r) ==
    CASE r.type = "remove" -> splice(cart, r.index, Len(cart), <<>>)
      [] r.type = "insert" -> Append(cart, r.item)
      [] r.type = "update" -> splice(cart, r.index, 1, <<r.item>>)
      [] OTHER -> cart

\* The switch of saveToCart: the local array after the record is applied.
applyRecord(cart, r) ==
    CASE r.type = "remove" -> splice(cart, r.index, 1, <<>>)
      [] r.type = "insert" -> Append(cart, r.item)
      [] r.type = "update" -> splice(cart, r.index, 1, <<r.item>>)
      [] OTHER -> cart

\* runHandlers that does not look at the result of the write.
runHandlersAlways(ok, handlers, type) ==
    IF type \in handlers THEN <<Callback(type)>> ELSE <<>>

\* The tail of saveToCart: the callback of the record's type, after a
\* successful write, when one is supplied.
runHandlers(ok, handlers, type) ==
    IF ok /\ type \in handlers THEN <<Callback(type)>> ELSE <<>>

NoRecord == [type |-> "", item |-> Null, index |-> -1]

\* saveToCart: what it leaves in the slot, what it returns, the record it
\* applied, its local array and its accesses in order.  A value read from
\* the slot that is not an array has no findIndex: the call raises a
\* TypeError before anything is written.
saveToCart(stored, data, color, quantity, handlers, quotaOk) ==
    LET rd == getCartFromStorage(stored)
    IN IF rd.raised \/ rd.value.kind # "array"
       THEN [storage |-> rd.storage, rec |-> NoRecord, local |-> <<>>,
             ret |-> "raised", events |-> rd.io]
       ELSE LET r    == createCartRecord(rd.value.items, data, color, quantity)
                cart == applyRecord(rd.value.items, r)
                w    == writeCartToStorage(rd.storage, cart, quotaOk)
            IN [storage |-> w.storage, rec |-> r, local |-> cart,
                ret |-> IF w.ok THEN "true" ELSE "false",
                events |-> rd.io \o w.io \o runHandlers(w.ok, handlers, r.type)]

----------------------------------------------------------------------------
NoCall == [op |-> "none", data |-> "", color |-> "", quantity |-> [kind |-> "number", n |-> 0],
           handlers |-> {}]

\* No call of saveToCart or getCartFromStorage has been made.
NoCallYet ==
    /\ prev = storage
    /\ call = NoCall
    /\ rec = NoRecord
    /\ local = <<>>
    /\ ret = "none"
    /\ result = JsOther("undefined")
    /\ events = <<>>

AggIdle == [phase |-> "idle", items |-> <<>>, quantity |-> 0, quantityText |-> 0,
            price |-> 0, priceText |-> 0]

\* A number read from an input: NaN, or a multiple of one half (halves = 3
\* is 1.5).
Num(nan, halves) == [nan |-> nan, halves |-> halves]
\* The min or max attribute of an input: not given, or a whole number.
Attr(given, n) == [given |-> given, n |-> n]

PpIdle == [phase |-> "idle", product |-> "", color |-> "", quantity |-> Num(TRUE, 0),
           min |-> Attr(FALSE, 0), max |-> Attr(FALSE, 0),
           threw |-> FALSE, errors |-> <<>>, nbErrors |-> 0,
           value |-> [color |-> "", quantity |-> Num(TRUE, 0)], alert |-> ""]

NoOrder == [state |-> "none", products |-> <<>>, status |-> 0]
NoFetch == [request |-> "", status |-> 0, resolved |-> FALSE]
CpIdle == [phase |-> "closed", catalog |-> <<>>, dom |-> <<>>, items |-> <<>>,
           totalQuantity |-> 0, totalPrice |-> 0, formShown |-> FALSE,
           order |-> NoOrder, fetch |-> NoFetch, event |-> ""]

\* Two tabs of the same origin share the slot.  A tab is idle, has read the
\* slot and reconciled (read), or has written and returned (done); start is
\* the slot before the first call and log the order of the accesses.
Sessions == {"tab1", "tab2"}
NoSession == [pc |-> "idle", data |-> "", color |-> "",
              quantity |-> [kind |-> "number", n |-> 0],
              snapshot |-> <<>>, rec |-> NoRecord, local |-> <<>>, ret |-> "none"]
SsIdle == [start |-> Raw("missing", <<>>), log |-> <<>>,
           tab |-> [t \in Sessions |-> NoSession]]

Init ==
    /\ storage \in InitStored
    /\ NoCallYet
    /\ agg = AggIdle
    /\ pp = PpIdle
    /\ cp = CpIdle
    /\ ss = SsIdle

\* A call saveToCart(data, color, quantity, handlers); quotaOk is whether
\* localStorage.setItem accepts the text.
SaveToCart ==
    \E data \in Products : \E color \in data.colors :
    \E quantity \in Quantities, handlers \in HandlerSets, quotaOk \in BOOLEAN :
        \E out \in {saveToCart(storage, data, color, quantity, handlers, quotaOk)} :
           /\ Len(out.local) <= MaxLen
           /\ out.rec.item.quantity <= MaxQty
           /\ storage' = out.storage
           /\ prev' = storage
           /\ call' = [op |-> "saveToCart", data |-> data._id, color |-> color,
                       quantity |-> quantity, handlers |-> handlers]
           /\ rec' = out.rec
           /\ local' = out.local
           /\ ret' = out.ret
           /\ result' = JsOther("undefined")
           /\ events' = out.events
           /\ UNCHANGED <<agg, pp, cp, ss>>

\* A call getCartFromStorage() (getCartProducts, onFormSubmit).
GetCartFromStorage ==
    \E out \in {getCartFromStorage(storage)} :
       /\ storage' = out.storage
       /\ prev' = storage
       /\ call' = [NoCall EXCEPT !.op = "getCartFromStorage"]
       /\ rec' = NoRecord
       /\ local' = <<>>
       /\ ret' = IF out.raised THEN "raised" ELSE "value"
       /\ result' = out.value
       /\ events' = out.io
       /\ UNCHANGED <<agg, pp, cp, ss>>

Next == SaveToCart \/ GetCartFromStorage

Spec == Init /\ [][Next]_vars

----------------------------------------------------------------------------
\* The totals of the cart page (computeQuantity, computePriceByQuantity).

\* sum(...values): reduce from 0.
RECURSIVE sum(_)
sum(values) == IF values = <<>> THEN 0 ELSE values[1] + sum(Tail(values))

\* localePrice: the value with two fraction digits, as a number of cents;
\* halves round away from zero.
localePrice(value) ==
    IF value >= 0 THEN (value + 5) \div 10 ELSE 0 - ((5 - value) \div 10)

\* computeQuantity: the text written to the element and the value returned.
computeQuantity(cart) ==
    LET total == sum([i \in 1 .. Len(cart) |-> cart[i].quantity])
    IN [text |-> total, total |-> total]

\* computePriceByQuantity that returns what it displays.
computePriceByQuantityRounded(cart) ==
    LET total == sum([i \in 1 .. Len(cart) |-> cart[i].price * cart[i].quantity])
    IN [text |-> localePrice(total), total |-> localePrice(total) * 10]

\* computePriceByQuantity: the text written to the element and the value
\* returned.
computePriceByQuantity(cart) ==
    LET total == sum([i \in 1 .. Len(cart) |-> cart[i].price * cart[i].quantity])
    IN [text |-> localePrice(total), total |-> total]

\* The cart-products given to the total functions.
AggPrices == {10000, 5500, 1004}
AggProducts == [price : AggPrices, quantity : 0 .. MaxQty]
AggLists == UNION { [1 .. n -> AggProducts] : n \in 0 .. MaxLen }

InitTotals ==
    /\ storage = Raw("missing", <<>>)
    /\ NoCallYet
    /\ agg \in { [AggIdle EXCEPT !.items = l] : l \in AggLists }
    /\ pp = PpIdle
    /\ cp = CpIdle
    /\ ss = SsIdle

\* Both total functions are applied to the list.
ComputeTotals ==
    /\ agg.phase = "idle"
    /\ \E q \in {computeQuantity(agg.items)}, p \in {computePriceByQuantity(agg.items)} :
          agg' = [agg EXCEPT !.phase = "computed",
                             !.quantity = q.total, !.quantityText = q.text,
                             !.price = p.total, !.priceText = p.text]
    /\ UNCHANGED <<coreVars, pp, cp, ss>>

SpecTotals == InitTotals /\ [][ComputeTotals]_vars

----------------------------------------------------------------------------
\* The product page (product.js): validateCartInput and the click on
\* "add to cart".

\* quantityInput.min || 1, quantityInput.max || 1
attrOr1(attr) == IF attr.given THEN attr.n ELSE 1

\* quantityInput.valueAsNumber || 0, in halves.
valueOr0(number) == IF number.nan THEN 0 ELSE number.halves

\* The entries pushed by validateCartInput, in order.
colorErrors(color, data) ==
    IF color = "" THEN <<"color required">>
    ELSE IF color \notin data.colors THEN <<"color unknown">>
    ELSE <<>>

quantityErrors(quantity, minQuantity, maxQuantity) ==
    IF quantity % 2 # 0 THEN <<"quantity invalid">>
    ELSE IF quantity < 2 * minQuantity \/ quantity > 2 * maxQuantity
    THEN <<"quantity range">>
    ELSE <<>>

\* validateCartInput that throws on the first entry it finds.
validateCartInputFirstOnly(color, number, minAttr, maxAttr, data) ==
    LET quantity == valueOr0(number)
        all      == colorErrors(color, data)
                      \o quantityErrors(quantity, attrOr1(minAttr), attrOr1(maxAttr))
        errors   == IF all = <<>> THEN <<>> ELSE <<all[1]>>
    IN [threw |-> errors # <<>>, errors |-> errors, nbErrors |-> Len(errors),
        value |-> [color |-> color, quantity |-> Num(FALSE, quantity)]]

\* validateCartInput with the maximum defaulting to 100 instead of 1.
validateCartInputMax100(color, number, minAttr, maxAttr, data) ==
    LET quantity == valueOr0(number)
        errors   == colorErrors(color, data)
                      \o quantityErrors(quantity, attrOr1(minAttr),
                                        IF maxAttr.given THEN maxAttr.n ELSE 100)
    IN [threw |-> errors # <<>>, errors |-> errors, nbErrors |-> Len(errors),
        value |-> [color |-> color, quantity |-> Num(FALSE, quantity)]]

\* validateCartInput: { color, quantity } when no entry was pushed, else a
\* ValidationError with the entries and their number.
validateCartInput(color, number, minAttr, maxAttr, data) ==
    LET quantity == valueOr0(number)
        errors   == colorErrors(color, data)
                      \o quantityErrors(quantity, attrOr1(minAttr), attrOr1(maxAttr))
    IN [threw |-> errors # <<>>, errors |-> errors, nbErrors |-> Len(errors),
        value |-> [color |-> color, quantity |-> Num(FALSE, quantity)]]

\* What the page's fields can hold.
SelectValues == {"", "red", "blue", "green"}
InputNumbers == {Num(TRUE, 0)} \cup {Num(FALSE, h) : h \in -2 .. 12}
MinAttrs == {Attr(FALSE, 0), Attr(TRUE, 1), Attr(TRUE, 2)}
MaxAttrs == {Attr(FALSE, 0), Attr(TRUE, 1), Attr(TRUE, 5)}

InitProductPage ==
    /\ storage = Raw("missing", <<>>)
    /\ NoCallYet
    /\ agg = AggIdle
    /\ pp \in { [PpIdle EXCEPT !.product = d._id, !.min = mn, !.max = mx] :
                  d \in Products, mn \in MinAttrs, mx \in MaxAttrs }
    /\ cp = CpIdle
    /\ ss = SsIdle

\* The click handler of handleAddToCart: the fields are validated; with
\* valid fields the page's saveToCart runs (it only logs 'Not Implemented')
\* and the "added" alert is shown, else the entries are shown.
AddToCartClick ==
    \E data \in Products, color \in SelectValues, number \in InputNumbers :
    \E v \in {validateCartInput(color, number, pp.min, pp.max, data)} :
        /\ data._id = pp.product
        /\ pp' = [pp EXCEPT !.phase = "validated", !.color = color, !.quantity = number,
                            !.threw = v.threw, !.errors = v.errors,
                            !.nbErrors = v.nbErrors, !.value = v.value,
                            !.alert = IF v.threw THEN "errors" ELSE "added"]
        /\ UNCHANGED <<coreVars, agg, cp, ss>>

SpecProductPage == InitProductPage /\ [][AddToCartClick]_vars

----------------------------------------------------------------------------
\* The cart page (cart.js).

\* fetchData: the response is read as JSON when its status is 200,
\* anything else rejects.
fetchData(status) == [resolved |-> status = 200]

NullProduct == [_id |-> "", price |-> 0, colors |-> {}, color |-> "", quantity |-> 0]

\* mapCartItem that falls back on the first product of the catalog.
mapCartItemFirstProduct(products, item) ==
    LET hits    == { i \in 1 .. Len(products) : products[i]._id = item.productId }
        product == IF hits = {} THEN products[1]
                   ELSE products[CHOOSE i \in hits : \A j \in hits : i <= j]
    IN [_id |-> product._id, price |-> product.price, colors |-> product.colors,
        color |-> item.color, quantity |-> item.quantity]

\* mapCartItem: the product found for item.productId spread with the item's
\* colour and quantity, null when no product is found.
mapCartItem(products, item) ==
    LET hits == { i \in 1 .. Len(products) : products[i]._id = item.productId }
    IN IF hits = {} THEN NullProduct
       ELSE LET product == products[CHOOSE i \in hits : \A j \in hits : i <= j]
            IN [_id |-> product._id, price |-> product.price, colors |-> product.colors,
                color |-> item.color, quantity |-> item.quantity]

\* getCartProducts: cart.map(mapCartItem).filter(Boolean); a stored value
\* that is not an array has no map and the call raises.
getCartProducts(products, stored) ==
    LET rd == getCartFromStorage(stored)
        IsProduct(x) == x # NullProduct
    IN IF rd.raised \/ rd.value.kind # "array"
       THEN [raised |-> TRUE, items |-> <<>>]
       ELSE [raised |-> FALSE,
             items |-> SelectSeq([i \in 1 .. Len(rd.value.items) |->
                                    mapCartItem(products, rd.value.items[i])],
                                 IsProduct)]

\* handleForm: the order form is displayed when there are items.
handleForm(items) == Len(items) > 0

\* updateCartState: the two totals written to the page and the form.
updateCartState(products, stored) ==
    LET got == getCartProducts(products, stored)
    IN [raised |-> got.raised, items |-> got.items,
        totalQuantity |-> computeQuantity(got.items).text,
        totalPrice |-> computePriceByQuantity(got.items).text,
        formShown |-> handleForm(got.items)]

\* The element of the list for a cart-product (dataset.id, dataset.color).
createCartElement(data) == [id |-> data._id, color |-> data.color]

\* updateItem that does not refresh the totals after saving.
updateItemNoRefresh(page, stored, elIdx, quantity, quotaOk) ==
    LET productEl == page.dom[elIdx]
        hits      == { i \in 1 .. Len(page.catalog) : page.catalog[i]._id = productEl.id }
    IN IF hits = {} THEN [storage |-> stored, page |-> [page EXCEPT !.event = "ignored"]]
       ELSE LET product == page.catalog[CHOOSE i \in hits : \A j \in hits : i <= j]
                out     == saveToCart(stored, product, productEl.color,
                                      [kind |-> "number", n |-> quantity],
                                      {"remove"}, quotaOk)
                removed == \E i \in 1 .. Len(out.events) : out.events[i] = Callback("remove")
                dom     == IF removed
                           THEN SubSeq(page.dom, 1, elIdx - 1)
                                  \o SubSeq(page.dom, elIdx + 1, Len(page.dom))
                           ELSE page.dom
            IN [storage |-> out.storage,
                page |-> [page EXCEPT !.dom = dom, !.event = out.ret]]

\* updateItem: the element's product and colour are saved with the
\* quantity; the remove handler takes the element out of the list; when
\* saveToCart returns true the totals and the form are refreshed.
updateItem(page, stored, elIdx, quantity, quotaOk) ==
    LET productEl == page.dom[elIdx]
        hits      == { i \in 1 .. Len(page.catalog) : page.catalog[i]._id = productEl.id }
    IN IF hits = {} THEN [storage |-> stored, page |-> [page EXCEPT !.event = "ignored"]]
       ELSE LET product == page.catalog[CHOOSE i \in hits : \A j \in hits : i <= j]
                out     == saveToCart(stored, product, productEl.color,
                                      [kind |-> "number", n |-> quantity],
                                      {"remove"}, quotaOk)
                removed == \E i \in 1 .. Len(out.events) : out.events[i] = Callback("remove")
                dom     == IF removed
                           THEN SubSeq(page.dom, 1, elIdx - 1)
                                  \o SubSeq(page.dom, elIdx + 1, Len(page.dom))
                           ELSE page.dom
                state   == updateCartState(page.catalog, out.storage)
            IN [storage |-> out.storage,
                page |-> IF out.ret = "true" /\ ~ state.raised
                         THEN [page EXCEPT !.dom = dom, !.event = out.ret,
                                           !.items = state.items,
                                           !.totalQuantity = state.totalQuantity,
                                           !.totalPrice = state.totalPrice,
                                           !.formShown = state.formShown]
                         ELSE [page EXCEPT !.dom = dom, !.event = out.ret]]

\* The carts the page can find in the slot: unique pairs, quantity 1 or the
\* largest quantity.
StoredItems == { createCartItem(d, c, q) : d \in Products, c \in {"red", "blue"},
                                           q \in {1, MaxQty} }
UniquePairs(cart) ==
    \A i, j \in 1 .. Len(cart) :
        i # j => ~ (cart[i].productId = cart[j].productId /\ cart[i].color = cart[j].color)
StoredCarts ==
    { cart \in UNION { [1 .. n -> StoredItems] : n \in 0 .. MaxLen } :
        /\ UniquePairs(cart)
        /\ \A i \in 1 .. Len(cart) :
              \E d \in Products : d._id = cart[i].productId /\ cart[i].color \in d.colors }
CartPageStored ==
    { Raw("array", cart) : cart \in StoredCarts }
      \cup { Raw(t, <<>>) : t \in {"missing", "invalid", "null"} }

\* The catalogs the API can answer with: both products, or p1 alone once p2
\* has been withdrawn.
P1 == CHOOSE d \in Products : d._id = "p1"
P2 == CHOOSE d \in Products : d._id = "p2"
Catalogs == { <<P1, P2>>, <<P1>> }
HttpStatuses == {200, 201, 404}

\* What the visitor can leave in a quantity field: a negative number, 0 (or
\* nothing), 1 and the largest quantity.
QuantityInputs == {-1, 0, 1, MaxQty}

InitCartPage ==
    /\ storage \in CartPageStored
    /\ NoCallYet
    /\ agg = AggIdle
    /\ pp = PpIdle
    /\ cp = [CpIdle EXCEPT !.phase = "loading"]
    /\ ss = SsIdle

\* DOMContentLoaded: the catalog request is answered; on success renderCart
\* builds the list from the cart-products, then updateCartState, then the
\* listeners.  A rejected request or a raise leaves the page as it was.
CatalogResponse ==
    /\ cp.phase = "loading"
    /\ \E status \in HttpStatuses, products \in Catalogs :
       \E f \in {fetchData(status)} :
       \E got \in {getCartProducts(products, storage)},
          state \in {updateCartState(products, storage)} :
          cp' = IF f.resolved /\ ~ got.raised /\ ~ state.raised
                THEN [cp EXCEPT !.phase = "rendered", !.catalog = products,
                                !.dom = [i \in 1 .. Len(got.items) |->
                                            createCartElement(got.items[i])],
                                !.items = state.items,
                                !.totalQuantity = state.totalQuantity,
                                !.totalPrice = state.totalPrice,
                                !.formShown = state.formShown,
                                !.fetch = [request |-> "catalog", status |-> status,
                                           resolved |-> TRUE]]
                ELSE [cp EXCEPT !.phase = "failed",
                                !.fetch = [request |-> "catalog", status |-> status,
                                           resolved |-> f.resolved]]
    /\ UNCHANGED <<storage, lastCallVars, agg, pp, ss>>

\* onQuantityChange on an element of the list: an empty field or 0 is
\* ignored, anything else goes to updateItem.
QuantityChange ==
    /\ cp.phase = "rendered"
    /\ \E elIdx \in 1 .. Len(cp.dom), quantity \in QuantityInputs, quotaOk \in BOOLEAN :
       \E out \in { IF quantity = 0
                    THEN [storage |-> storage, page |-> [cp EXCEPT !.event = "ignored"]]
                    ELSE updateItem(cp, storage, elIdx, quantity, quotaOk) } :
          /\ storage' = out.storage
          /\ cp' = out.page
    /\ UNCHANGED <<lastCallVars, agg, pp, ss>>

\* onDelete on an element of the list: updateItem with quantity 0.
DeleteClick ==
    /\ cp.phase = "rendered"
    /\ \E elIdx \in 1 .. Len(cp.dom), quotaOk \in BOOLEAN :
       \E out \in {updateItem(cp, storage, elIdx, 0, quotaOk)} :
          /\ storage' = out.storage
          /\ cp' = [out.page EXCEPT !.event = "delete " \o out.page.event]
    /\ UNCHANGED <<lastCallVars, agg, pp, ss>>

\* The products of the order, last item of the cart first.
orderProductsReversed(stored) ==
    LET rd == getCartFromStorage(stored)
    IN IF rd.raised \/ rd.value.kind # "array"
       THEN [raised |-> TRUE, products |-> <<>>]
       ELSE [raised |-> FALSE,
             products |-> [i \in 1 .. Len(rd.value.items) |->
                              rd.value.items[Len(rd.value.items) + 1 - i].productId]]

\* The products of the order: getCartFromStorage().map(productId), the cart
\* being read again from the slot; a value that is not an array has no map
\* and the handler raises before the request.
orderProducts(stored) ==
    LET rd == getCartFromStorage(stored)
    IN IF rd.raised \/ rd.value.kind # "array"
       THEN [raised |-> TRUE, products |-> <<>>]
       ELSE [raised |-> FALSE,
             products |-> [i \in 1 .. Len(rd.value.items) |->
                              rd.value.items[i].productId]]

\* onFormSubmit up to its await: the product ids of the stored cart are
\* posted.  One order is in flight at a time.
SubmitOrder ==
    /\ cp.phase = "rendered"
    /\ cp.formShown
    /\ cp.order.state # "pending"
    /\ \E body \in {orderProducts(storage)} :
          /\ ~ body.raised
          /\ cp' = [cp EXCEPT !.order = [state |-> "pending",
                                         products |-> body.products,
                                         status |-> 0]]
    /\ UNCHANGED <<storage, lastCallVars, agg, pp, ss>>

\* onFormSubmit after its await: on success the empty cart is written, its
\* result is not looked at, and the page goes to confirmation.html; a
\* rejection is logged.
OrderResponse ==
    /\ cp.phase = "rendered"
    /\ cp.order.state = "pending"
    /\ \E status \in HttpStatuses, quotaOk \in BOOLEAN :
       \E f \in {fetchData(status)} :
       \E w \in {writeCartToStorage(storage, <<>>, quotaOk)} :
          IF f.resolved
          THEN /\ storage' = w.storage
               /\ cp' = [cp EXCEPT !.phase = "confirmation",
                                   !.order = [cp.order EXCEPT !.state = "done",
                                                              !.status = status],
                                   !.fetch = [request |-> "order", status |-> status,
                                              resolved |-> TRUE]]
          ELSE /\ storage' = storage
               /\ cp' = [cp EXCEPT !.order = [cp.order EXCEPT !.state = "failed",
                                                              !.status = status],
                                   !.fetch = [request |-> "order", status |-> status,
                                              resolved |-> FALSE]]
    /\ UNCHANGED <<lastCallVars, agg, pp, ss>>

NextCartPage ==
    CatalogResponse \/ QuantityChange \/ DeleteClick \/ SubmitOrder \/ OrderResponse

SpecCartPage == InitCartPage /\ [][NextCartPage]_vars

----------------------------------------------------------------------------
\* Two tabs calling saveToCart on the same slot (utils.js).

\* saveToCart up to its write: the slot is read once and the record is
\* applied to the tab's own array.
saveToCartRead(stored, data, color, quantity) ==
    LET rd == getCartFromStorage(stored)
    IN IF rd.raised \/ rd.value.kind # "array"
       THEN [raised |-> TRUE, storage |-> rd.storage, snapshot |-> <<>>,
             rec |-> NoRecord, local |-> <<>>]
       ELSE LET r == createCartRecord(rd.value.items, data, color, quantity)
            IN [raised |-> FALSE, storage |-> rd.storage, snapshot |-> rd.value.items,
                rec |-> r, local |-> applyRecord(rd.value.items, r)]

\* The product a tab was called with.
ProductOf(id) == CHOOSE d \in Products : d._id = id

\* A write that reconciles again with what the slot holds at that time.
saveToCartWriteRereads(tab, stored, quotaOk) ==
    LET again == saveToCartRead(stored, ProductOf(tab.data), tab.color, tab.quantity)
        w     == writeCartToStorage(stored, again.local, quotaOk)
    IN [storage |-> w.storage, ret |-> IF w.ok THEN "true" ELSE "false"]

\* The rest of saveToCart: the tab's array is written whatever the slot
\* holds by then, and the result of the write is returned.
saveToCartWrite(tab, stored, quotaOk) ==
    LET w == writeCartToStorage(stored, tab.local, quotaOk)
    IN [storage |-> w.storage, ret |-> IF w.ok THEN "true" ELSE "false"]

\* The slot when the tabs start: nothing, or a cart that leaves room for one
\* more item.
SessionStored ==
    { Raw("array", cart) : cart \in { c \in StoredCarts : Len(c) < MaxLen } }
      \cup { Raw("missing", <<>>) }

InitSessions ==
    /\ storage \in SessionStored
    /\ NoCallYet
    /\ agg = AggIdle
    /\ pp = PpIdle
    /\ cp = CpIdle
    /\ ss = [SsIdle EXCEPT !.start = storage]

\* A tab starts a call of saveToCart and gets as far as its write.
SessionRead(t) ==
    /\ ss.tab[t].pc = "idle"
    /\ \E data \in Products : \E color \in data.colors : \E quantity \in Quantities :
       \E out \in {saveToCartRead(storage, data, color, quantity)} :
          /\ storage' = out.storage
          /\ ss' = [ss EXCEPT !.log = Append(@, [tab |-> t, step |-> "read"]),
                              !.tab[t] = [pc |-> IF out.raised THEN "done" ELSE "read",
                                          data |-> data._id, color |-> color,
                                          quantity |-> quantity,
                                          snapshot |-> out.snapshot, rec |-> out.rec,
                                          local |-> out.local,
                                          ret |-> IF out.raised THEN "raised" ELSE "none"]]
    /\ UNCHANGED <<lastCallVars, agg, pp, cp>>

\* The tab writes its array and returns.
SessionWrite(t) ==
    /\ ss.tab[t].pc = "read"
    /\ \E quotaOk \in BOOLEAN :
       \E out \in {saveToCartWrite(ss.tab[t], storage, quotaOk)} :
          /\ storage' = out.storage
          /\ ss' = [ss EXCEPT !.log = Append(@, [tab |-> t, step |-> "write"]),
                              !.tab[t].pc = "done",
                              !.tab[t].ret = out.ret]
    /\ UNCHANGED <<lastCallVars, agg, pp, cp>>

NextSessions == \E t \in Sessions : SessionRead(t) \/ SessionWrite(t)

SpecSessions == InitSessions /\ [][NextSessions]_vars

----------------------------------------------------------------------------
\* What the properties below talk about, read off the state alone.

\* The last operation was a saveToCart call that ran to its return.
SaveReturned == call.op = "saveToCart" /\ ret \in {"true", "false"}

\* The cart a stored text stands for: its items when it is an array, the
\* empty cart when the key is missing or the text is not JSON.
CartOf(raw) == IF raw.tag = "array" THEN raw.items ELSE <<>>
CartBefore == CartOf(prev)
Persisted == CartOf(storage)

PositionsOf(cart, id, color) ==
    { i \in 1 .. Len(cart) : cart[i].productId = id /\ cart[i].color = color }
HasPair(cart, id, color) == PositionsOf(cart, id, color) # {}
CurrentQuantity(cart, id, color) ==
    IF HasPair(cart, id, color)
    THEN cart[CHOOSE i \in PositionsOf(cart, id, color) : TRUE].quantity
    ELSE 0

\* The pair of the last call was in the cart it started from.
PairPresent == HasPair(CartBefore, call.data, call.color)
\* The effective quantity of the last call.
Effective ==
    IF call.quantity.kind = "function"
    THEN CurrentQuantity(CartBefore, call.data, call.color) + call.quantity.n
    ELSE call.quantity.n

SetItems == { i \in 1 .. Len(events) : events[i].ev = "setItem" }
GetItems == { i \in 1 .. Len(events) : events[i].ev = "getItem" }
Callbacks == { i \in 1 .. Len(events) : events[i].ev = "callback" }
WriteSucceeded == \E i \in SetItems : events[i].ok

----------------------------------------------------------------------------
\* C1: the persisted cart never holds two line items with the same
\* (productId, color) pair.
NoDuplicatePairs ==
    \A i, j \in 1 .. Len(storage.items) :
        i # j => ~ ( /\ storage.items[i].productId = storage.items[j].productId
                     /\ storage.items[i].color = storage.items[j].color )

\* C1 is exercised: a call on a pair that is already in a cart of two items
\* succeeded and left two items.
NoDuplicatePairsWitness ==
    /\ SaveReturned /\ ret = "true"
    /\ PairPresent /\ Len(CartBefore) = 2
    /\ rec.type = "update" /\ Len(storage.items) = 2

\* C2: every line item of the persisted cart has quantity >= 1.
QuantityAtLeastOne ==
    \A i \in 1 .. Len(storage.items) : storage.items[i].quantity >= 1

\* C3: the action kind reported by createCartRecord is the one of the
\* decision table: present and <= 0 remove, present and > 0 update, absent
\* and <= 0 remove, absent and > 0 insert.
DecisionTable ==
    SaveReturned =>
        rec.type = IF Effective <= 0 THEN "remove"
                   ELSE IF PairPresent THEN "update" ELSE "insert"

\* C4: on a pair that is absent, an intent whose effective quantity is <= 0
\* gives a remove action and leaves the cart as it was.
IdempotentRemoval ==
    (SaveReturned /\ ~ PairPresent /\ Effective <= 0) =>
        /\ rec.type = "remove"
        /\ local = CartBefore
        /\ Persisted = CartBefore

\* C5: on a pair that is present, an effective quantity <= 0 gives a remove
\* action at the item's position and the pair is gone once it is applied.
UpdateToNonPositiveRemoves ==
    (SaveReturned /\ PairPresent /\ Effective <= 0) =>
        /\ rec.type = "remove"
        /\ rec.index + 1 \in PositionsOf(CartBefore, call.data, call.color)
        /\ ~ HasPair(local, call.data, call.color)
        /\ Len(local) = Len(CartBefore) - 1
        /\ (ret = "true" => ~ HasPair(Persisted, call.data, call.color))

\* C5 is exercised: the second item of a cart was removed by a function
\* intent and the write succeeded.
UpdateToNonPositiveRemovesWitness ==
    /\ SaveReturned /\ ret = "true"
    /\ PairPresent /\ Effective <= 0
    /\ call.quantity.kind = "function"
    /\ Len(CartBefore) = 2 /\ rec.index = 1

\* C6: a function intent is applied to the pair's current quantity, 0 when
\* the pair is absent; on a present pair with quantity q and q + d > 0 the
\* action is an update to q + d at the item's position and the cart keeps
\* exactly one item for the pair.
InsertThenUpdateCollapses ==
    (SaveReturned /\ call.quantity.kind = "function") =>
        /\ (~ PairPresent => rec.item.quantity = 0 + call.quantity.n)
        /\ (PairPresent /\ Effective > 0) =>
              /\ rec.type = "update"
              /\ rec.item = [productId |-> call.data, color |-> call.color,
                             quantity |-> Effective]
              /\ rec.index + 1 \in PositionsOf(CartBefore, call.data, call.color)
              /\ local[rec.index + 1] = rec.item
              /\ Cardinality(PositionsOf(local, call.data, call.color)) = 1
              /\ Len(local) = Len(CartBefore)

\* C6 is exercised: the second item of a cart, with quantity 1, was updated
\* to 2 by q => q + 1.
InsertThenUpdateCollapsesWitness ==
    /\ SaveReturned /\ ret = "true"
    /\ call.quantity = [kind |-> "function", n |-> 1]
    /\ PairPresent /\ CurrentQuantity(CartBefore, call.data, call.color) = 1
    /\ rec.index = 1 /\ storage.items[2].quantity = 2

\* C7: saveToCart returns true exactly when the write succeeded, and after
\* a failed write the slot holds what it held before the call.
TrueIffWritten ==
    call.op = "saveToCart" =>
        /\ (ret = "true") = WriteSucceeded
        /\ (ret # "true" => storage = prev)
        /\ ((SetItems # {} /\ ~ WriteSucceeded) => ret = "false")

\* C7 is exercised: a write of a changed cart failed.
TrueIffWrittenWitness ==
    /\ SaveReturned /\ ret = "false"
    /\ Len(CartBefore) >= 1 /\ local # CartBefore
    /\ SetItems # {} /\ ~ WriteSucceeded

\* C8: a callback runs only after a successful write, only the one of the
\* applied action's kind and supplied by the caller, and at most once.
CallbackAfterWrite ==
    call.op = "saveToCart" =>
        /\ Cardinality(Callbacks) <= 1
        /\ (~ WriteSucceeded => Callbacks = {})
        /\ \A i \in Callbacks :
              /\ \E j \in SetItems : j < i /\ events[j].ok
              /\ events[i].kind = rec.type
              /\ events[i].kind \in call.handlers

\* C8 is exercised: the remove callback ran after the write that removed
\* the second item of a cart.
CallbackAfterWriteWitness ==
    /\ SaveReturned /\ ret = "true"
    /\ "remove" \in call.handlers /\ rec.type = "remove" /\ rec.index = 1
    /\ Callbacks # {} /\ events[Len(events)] = Callback("remove")

\* C9: a saveToCart call reads the slot once, first, and writes it at most
\* once; a successful write stores the whole local cart.
OneReadThenOneWrite ==
    call.op = "saveToCart" =>
        /\ Cardinality(GetItems) = 1
        /\ Cardinality(SetItems) <= 1
        /\ \A i \in SetItems : \A j \in GetItems : j < i
        /\ (WriteSucceeded => storage = [tag |-> "array", items |-> local])
        /\ (~ WriteSucceeded => storage = prev)

\* C9 is exercised: a call read the slot and wrote a cart of two items.
OneReadThenOneWriteWitness ==
    /\ SaveReturned /\ WriteSucceeded
    /\ Len(local) = 2 /\ rec.type = "insert"
    /\ Len(events) >= 2

\* C10: getCartFromStorage never raises and never writes; with the key
\* missing or a text that is not JSON it returns the empty cart.
ReadNeverRaisesNorWrites ==
    call.op = "getCartFromStorage" =>
        /\ ret = "value"
        /\ storage = prev
        /\ SetItems = {}
        /\ (prev.tag \in {"missing", "empty", "invalid"} =>
                result = [kind |-> "array", items |-> <<>>])

\* C10 is exercised: the slot held text that is not JSON when it was read.
ReadNeverRaisesNorWritesWitness ==
    /\ call.op = "getCartFromStorage"
    /\ prev.tag = "invalid"
    /\ result.kind = "array"

\* C11: saveToCart never fails its caller because of the stored text: with
\* the key missing, a text that is not JSON or the JSON text of something
\* that is not an array of items, it reconciles against the empty cart and
\* returns a boolean.
NeverFailsCaller ==
    (call.op = "saveToCart" /\ prev.tag \in CorruptTags) =>
        /\ ret \in {"true", "false"}
        /\ rec.type \in Kinds /\ rec.index = -1
        /\ Len(local) <= 1

\* The items of a cart that are not of the pair of the last call, in order.
Others(cart) ==
    LET NotThePair(it) == ~ (it.productId = call.data /\ it.color = call.color)
    IN SelectSeq(cart, NotThePair)

\* C12: insert appends the item at the end, update replaces the item at its
\* position, remove deletes the item at its position; the items of the
\* other pairs keep their value and their order.
OnlyTargetChanges ==
    SaveReturned =>
        /\ Others(local) = Others(CartBefore)
        /\ rec.type = "insert" => local = Append(CartBefore, rec.item)
        /\ rec.type = "update" =>
              /\ Len(local) = Len(CartBefore)
              /\ \A i \in 1 .. Len(local) :
                    local[i] = IF i = rec.index + 1 THEN rec.item ELSE CartBefore[i]
        /\ rec.type = "remove" =>
              /\ Len(local) = Len(CartBefore) - 1
              /\ \A i \in 1 .. Len(local) :
                    local[i] = IF i < rec.index + 1 THEN CartBefore[i]
                               ELSE CartBefore[i + 1]
        /\ (ret = "true" => Persisted = local)

\* C12 is exercised: the first of two items was removed and the second is
\* what the cart holds.
OnlyTargetChangesWitness ==
    /\ SaveReturned /\ ret = "true"
    /\ rec.type = "remove" /\ rec.index = 0
    /\ Len(CartBefore) = 2 /\ Persisted = <<CartBefore[2]>>

\* The sum of f over the positions of a list, one position at a time from
\* the last.
RECURSIVE TotalUpTo(_, _, _)
TotalUpTo(items, n, price) ==
    IF n = 0 THEN 0
    ELSE TotalUpTo(items, n - 1, price)
         + (IF price THEN items[n].price * items[n].quantity ELSE items[n].quantity)

\* C13: computeQuantity returns the sum of the quantities and
\* computePriceByQuantity the sum of price * quantity, not rounded to the
\* two digits it displays; [{10, 2}, {5.5, 1}] gives 3 and 25.5 and the
\* empty list gives 0 and 0.
TotalsAreSums ==
    agg.phase = "computed" =>
        /\ agg.quantity = TotalUpTo(agg.items, Len(agg.items), FALSE)
        /\ agg.price = TotalUpTo(agg.items, Len(agg.items), TRUE)
        /\ (agg.items = <<>> => agg.quantity = 0 /\ agg.price = 0)
        /\ (agg.items = << [price |-> 10000, quantity |-> 2],
                           [price |-> 5500, quantity |-> 1] >>
              => agg.quantity = 3 /\ agg.price = 25500)

\* C13 is exercised: the totals of a list whose exact price total is not a
\* whole number of cents.
TotalsAreSumsWitness ==
    /\ agg.phase = "computed"
    /\ Len(agg.items) = 2
    /\ agg.price # agg.priceText * 10
    /\ agg.quantity = 3

\* The product of the product page.
PpProduct == CHOOSE d \in Products : d._id = pp.product
\* The number entered in the quantity field, in halves; NaN is not a number.
Whole(number) == ~ number.nan /\ number.halves % 2 = 0
BoundOf(attr) == IF attr.given THEN attr.n ELSE 1
InRange(number) ==
    /\ ~ number.nan
    /\ number.halves >= 2 * BoundOf(pp.min)
    /\ number.halves <= 2 * BoundOf(pp.max)

\* The quantity that is validated: an empty field counts as 0.
Entered == IF pp.quantity.nan THEN Num(FALSE, 0) ELSE pp.quantity

\* The rules of validation the fields violate.
ViolatedRules ==
    (IF pp.color = "" THEN {"color required"} ELSE {})
    \cup (IF pp.color # "" /\ pp.color \notin PpProduct.colors
          THEN {"color unknown"} ELSE {})
    \cup (IF ~ Whole(Entered) THEN {"quantity invalid"} ELSE {})
    \cup (IF ~ InRange(Entered) THEN {"quantity range"} ELSE {})

\* C15: the ValidationError carries one entry for every rule the fields
\* violate and its count is the number of entries.
AllViolationsCollected ==
    (pp.phase = "validated" /\ pp.threw) =>
        /\ pp.nbErrors = Len(pp.errors)
        /\ pp.nbErrors = Cardinality(ViolatedRules)
        /\ \A r \in ViolatedRules : \E i \in 1 .. Len(pp.errors) : pp.errors[i] = r

\* C15 as amended: the ValidationError carries one entry for the colour
\* when it is missing or unknown and one entry for the quantity when it is
\* not whole or, being whole, out of range; its count is the number of
\* entries; no colour with 1.5 in {1, 5} gives two entries.
OneEntryPerField ==
    (pp.phase = "validated" /\ pp.threw) =>
        LET colorBad == pp.color = "" \/ pp.color \notin PpProduct.colors
            entered  == Entered
            qtyBad   == ~ Whole(entered) \/ ~ InRange(entered)
        IN /\ pp.nbErrors = Len(pp.errors)
           /\ pp.nbErrors = (IF colorBad THEN 1 ELSE 0) + (IF qtyBad THEN 1 ELSE 0)
           /\ colorBad =>
                pp.errors[1] = IF pp.color = "" THEN "color required" ELSE "color unknown"
           /\ qtyBad =>
                pp.errors[Len(pp.errors)] =
                    IF ~ Whole(entered) THEN "quantity invalid" ELSE "quantity range"
           /\ (pp.color = "" /\ pp.quantity = Num(FALSE, 3)
               /\ pp.min = Attr(TRUE, 1) /\ pp.max = Attr(TRUE, 5))
                => pp.errors = <<"color required", "quantity invalid">>

\* C15 is exercised: no colour and 1.5 with bounds {1, 5} failed with two
\* entries.
OneEntryPerFieldWitness ==
    /\ pp.phase = "validated" /\ pp.threw
    /\ pp.color = "" /\ pp.quantity = Num(FALSE, 3)
    /\ pp.min = Attr(TRUE, 1) /\ pp.max = Attr(TRUE, 5)
    /\ pp.nbErrors = 2

\* C16: validateCartInput returns { color, quantity } exactly when a colour
\* is selected, it is one of the product's, the quantity is whole and
\* min <= quantity <= max, min and max defaulting to 1; what it returns is
\* the selected colour and the entered quantity; otherwise it fails with a
\* ValidationError.
ReturnsIffValid ==
    pp.phase = "validated" =>
        /\ (~ pp.threw) = ( /\ pp.color # ""
                            /\ pp.color \in PpProduct.colors
                            /\ Whole(pp.quantity)
                            /\ InRange(pp.quantity) )
        /\ (~ pp.threw => pp.value = [color |-> pp.color, quantity |-> pp.quantity])
        /\ (pp.threw => pp.nbErrors >= 1)

\* C16 is exercised: a value was returned with the maximum not given.
ReturnsIffValidWitness ==
    /\ pp.phase = "validated" /\ ~ pp.threw
    /\ ~ pp.max.given /\ pp.min.given
    /\ pp.value = [color |-> "blue", quantity |-> Num(FALSE, 2)]

\* The line items of the persisted cart whose product is in the catalog of
\* the cart page, and the catalog price of a line item.
InCatalog(it) == \E i \in 1 .. Len(cp.catalog) : cp.catalog[i]._id = it.productId
Kept == SelectSeq(Persisted, InCatalog)
PriceOf(it) ==
    (CHOOSE d \in { cp.catalog[i] : i \in 1 .. Len(cp.catalog) } : d._id = it.productId).price
KeptWithPrice ==
    [i \in 1 .. Len(Kept) |-> [price |-> PriceOf(Kept[i]), quantity |-> Kept[i].quantity]]

\* C14: the cart-products of the cart page are the line items whose product
\* is in the catalog, in cart order, each with its own colour and quantity;
\* the others are dropped from the list shown and from the total.
StaleItemsDropped ==
    cp.phase = "rendered" =>
        /\ Len(cp.items) = Len(Kept)
        /\ \A i \in 1 .. Len(Kept) :
              /\ cp.items[i]._id = Kept[i].productId
              /\ cp.items[i].color = Kept[i].color
              /\ cp.items[i].quantity = Kept[i].quantity
              /\ cp.items[i].price = PriceOf(Kept[i])
        /\ cp.dom = [i \in 1 .. Len(Kept) |->
                        [id |-> Kept[i].productId, color |-> Kept[i].color]]
        /\ cp.totalQuantity = TotalUpTo(KeptWithPrice, Len(Kept), FALSE)

\* C14 is exercised: the cart holds an item of p2, the catalog only has p1,
\* and the page shows the one item of p1.
StaleItemsDroppedWitness ==
    /\ cp.phase = "rendered"
    /\ Len(cp.catalog) = 1
    /\ Len(Persisted) = 2 /\ Persisted[1].productId = "p2"
    /\ Len(cp.items) = 1 /\ cp.items[1]._id = "p1"

\* C17: when the order request succeeds the page goes to the confirmation
\* page with the empty cart persisted; when it fails the persisted cart is
\* unchanged and the page stays.
CheckoutClearsCart ==
    [][ /\ (cp.order.state = "pending" /\ cp'.order.state = "done") =>
              (cp'.phase = "confirmation" /\ storage' = [tag |-> "array", items |-> <<>>])
        /\ (cp.order.state = "pending" /\ cp'.order.state = "failed") =>
              (cp'.phase = "rendered" /\ storage' = storage) ]_vars

\* C18: a request succeeds when the status is 200 or 201 and fails for
\* every other status.
SucceedsOn200or201 ==
    cp.fetch.request # "" => (cp.fetch.resolved = (cp.fetch.status \in {200, 201}))

\* C20: on the cart page the total quantity and the total price shown are
\* the totals of the persisted cart joined with the catalog, and the order
\* form is shown exactly when that joined list is not empty.
DisplayedTotalsMatch ==
    cp.phase = "rendered" =>
        /\ cp.totalQuantity = TotalUpTo(KeptWithPrice, Len(Kept), FALSE)
        /\ cp.totalPrice = (TotalUpTo(KeptWithPrice, Len(Kept), TRUE) + 5) \div 10
        /\ cp.formShown = (Kept # <<>>)

\* C20 is exercised: one of two items was deleted and the totals are those
\* of the item that is left.
DisplayedTotalsMatchWitness ==
    /\ cp.phase = "rendered"
    /\ cp.event = "delete true"
    /\ Len(Kept) = 1 /\ Len(cp.dom) = 1
    /\ cp.totalQuantity = Kept[1].quantity /\ cp.formShown

\* The accesses of a tab in the order of all accesses, the tabs whose write
\* succeeded, and what one call of a tab makes of a cart when it runs alone.
Position(t, step) ==
    CHOOSE i \in 1 .. Len(ss.log) : ss.log[i].tab = t /\ ss.log[i].step = step
Wrote(t) == ss.tab[t].pc = "done" /\ ss.tab[t].ret = "true"
Alone(cart, t) ==
    saveToCart(Raw("array", cart), ProductOf(ss.tab[t].data), ss.tab[t].color,
               ss.tab[t].quantity, {}, TRUE).local
Overlapped(t, u) ==
    /\ Wrote(t) /\ Wrote(u)
    /\ Position(u, "read") < Position(t, "write")
    /\ Position(t, "write") < Position(u, "write")

\* C19: the tab that writes last replaces the whole collection with what it
\* made of the cart it read.  When the other tab wrote between that read and
\* that write, the other tab's change is not in the slot although both calls
\* returned true; when the other tab wrote before that read, both changes
\* are in the slot; a tab on its own never loses its change.
LastWriterWins ==
    /\ (\A t \in Sessions : ~ Wrote(t)) => storage = ss.start
    /\ \A t, u \in Sessions :
          (t # u /\ Wrote(u) /\ (Wrote(t) => Position(t, "write") < Position(u, "write"))) =>
              Persisted =
                 IF Wrote(t) /\ Position(t, "write") < Position(u, "read")
                 THEN Alone(Alone(CartOf(ss.start), t), u)
                 ELSE Alone(CartOf(ss.start), u)

\* C19 is exercised: both tabs read the empty cart, tab1 wrote an item of p1
\* and then tab2 an item of p2; both returned true and the item of p1 is
\* gone.
LastWriterWinsWitness ==
    /\ Overlapped("tab1", "tab2")
    /\ Position("tab2", "read") < Position("tab1", "write")
    /\ CartOf(ss.start) = <<>>
    /\ ss.tab["tab1"].rec.type = "insert" /\ ss.tab["tab1"].data = "p1"
    /\ ss.tab["tab2"].rec.type = "insert" /\ ss.tab["tab2"].data = "p2"
    /\ Len(Persisted) = 1 /\ Persisted[1].productId = "p2"
    /\ ~ HasPair(Persisted, "p1", ss.tab["tab1"].color)

\* C21: the products posted with an order are the productId of every line
\* item of the cart persisted when the form is submitted, in cart order,
\* one entry per line item whatever its quantity, the items without a
\* catalog product included.
OrderListsEveryLineItem ==
    [][ (cp.order.state # "pending" /\ cp'.order.state = "pending") =>
            /\ Len(cp'.order.products) = Len(Persisted)
            /\ \A i \in 1 .. Len(Persisted) :
                  cp'.order.products[i] = Persisted[i].productId ]_vars

\* C21 is exercised: the order in flight lists p2, which the catalog does
\* not have and the page does not show, before p1, whose quantity is above 1.
OrderListsEveryLineItemWitness ==
    /\ cp.order.state = "pending"
    /\ cp.order.products = <<"p2", "p1">>
    /\ Len(cp.catalog) = 1 /\ Len(cp.items) = 1
    /\ Len(Persisted) = 2 /\ Persisted[2].quantity > 1

====
